---- MODULE Spec2Model ----
(***************************************************************************)
(* BetterBusBuffers, Polygon tool, Step 1 (BBB_Polygons_Step1.py, runTool). *)
(*                                                                         *)
(* runTool is a straight-line batch: set up the run, make the stops        *)
(* feature class, make the service areas, flatten them, stack one inside   *)
(* point per flattened polygon against the service areas, read the stacked *)
(* points into the SQL table StackedPoints, delete the flattened polygons  *)
(* that have zero area or no stop_id, and set PolyID to the object id.     *)
(* Every statement group of runTool is one action; pc is the position in   *)
(* the function body.  A call into arcpy, BBB_SharedFunctions, shutil or   *)
(* sqlite3 may raise; the exception is either BBB_SharedFunctions'         *)
(* CustomError or any other exception.                                     *)
(*                                                                         *)
(* Geometry is abstracted to what the code reads of it: a flattened        *)
(* polygon has an area (0 or positive), FeatureToPoint gives it an inside  *)
(* point or not, and the point lies in the service areas of a set of stops *)
(* (its cover).                                                            *)
(***************************************************************************)
EXTENDS Integers, Sequences, FiniteSets

\* ------------------------------------------------------------- bounds
\* The largest number of polygons FeatureToPolygon returns in the model.
MaxCells == 3

\* ------------------------------------------------------------- values
StopIds == {"S1", "S2"}

\* The stop_id of an Identity output point that lies in no service area.
NoStop == ""

\* The value of a field that was added and not yet calculated (NULL).
Null == 0

\* Shape_Area of a flattened polygon: zero, or some positive area.
Areas == {0, 1}

NoFailure == "none"

ErrorKinds == {"CustomError", "Exception"}

\* What the input SQL database may hold of a StackedPoints table (left by an
\* earlier run): no such table, or a table with rows.
InputTables ==
    { [exists |-> FALSE, rows |-> <<>>],
      [exists |-> TRUE,  rows |-> << <<1, "S1">>, <<2, "S2">> >>] }

NoTable == [exists |-> FALSE, rows |-> <<>>]

VARIABLES
    pc,               \* position in runTool's body
    outcome,          \* "running", "returned" (normal return) or "raised"
    failedAt,         \* the statement group that raised, or NoFailure
    errKind,          \* the kind of the exception raised, or NoFailure
    messages,         \* the arcpy.AddError messages, in order
    log,              \* the statement groups completed, in order
    envOverwrite,     \* arcpy.env.overwriteOutput
    origOverwrite,    \* arcpy.env.overwriteOutput when runTool was called
    OverwriteOutput,  \* runTool's local OverwriteOutput ("unset" before line 58)
    gdbExists,        \* the output file geodatabase exists
    inTable,          \* the StackedPoints table of the input SQL database
    sqlCopied,        \* Step1_GTFS.sql exists in the output geodatabase
    sqlTable,         \* the StackedPoints table of Step1_GTFS.sql
    StopIDList,       \* the stop_ids of Step1_Stops
    polygons,         \* the stop_ids that have a service area polygon
    flattened,        \* FeatureToPolygon's output as first written
    FlatPolys,        \* the feature class Step1_FlatPolys
    StackedPoints,    \* the feature class Step1_StackedPoints (Identity output)
    FIDsToDelete,
    AddToStackedPts

vars == << pc, outcome, failedAt, errKind, messages, log, envOverwrite,
           origOverwrite, OverwriteOutput, gdbExists, inTable, sqlCopied,
           sqlTable, StopIDList, polygons, flattened, FlatPolys,
           StackedPoints, FIDsToDelete, AddToStackedPts >>

\* ------------------------------------------------------------- helpers
RECURSIVE SeqOfSet(_)
SeqOfSet(S) ==
    IF S = {} THEN <<>>
    ELSE LET x == CHOOSE y \in S : TRUE
         IN  <<x>> \o SeqOfSet(S \ {x})

SeqsUpTo(S, n) == UNION { [1..k -> S] : k \in 0..n }

Range(s) == { s[i] : i \in DOMAIN s }

IsPrefix(s, t) == Len(s) <= Len(t) /\ \A i \in DOMAIN s : s[i] = t[i]

\* ------------------------------------------------------------- control
\* (mutant of Order) the polygons are deleted and numbered before the rows
\* are inserted and committed.
OrderCleanupBeforeStore ==
    << "CheckSetup", "SetOverwrite", "CreateFileGDB", "CopyDbase", "Connect",
       "CleanUpSettings", "MakeStops", "MakeServiceAreas", "Flatten",
       "StackPoints", "CreateTable", "ReadRows", "DeleteFeatures",
       "PopulatePolyID", "StoreLinks", "Finish" >>

\* The statement groups of runTool's body, in the order they are written.
Order ==
    << "CheckSetup", "SetOverwrite", "CreateFileGDB", "CopyDbase", "Connect",
       "CleanUpSettings", "MakeStops", "MakeServiceAreas", "Flatten",
       "StackPoints", "CreateTable", "ReadRows", "StoreLinks",
       "DeleteFeatures", "PopulatePolyID", "Finish" >>

Successor(p) ==
    LET i == CHOOSE k \in DOMAIN Order : Order[k] = p
    IN  IF i = Len(Order) THEN "done" ELSE Order[i + 1]

SetupSteps == { "CheckSetup", "SetOverwrite", "CreateFileGDB", "CopyDbase",
                "Connect", "CleanUpSettings" }

PostProcessSteps == { "Flatten", "StackPoints", "CreateTable", "ReadRows",
                      "StoreLinks", "DeleteFeatures", "PopulatePolyID" }

\* The statement groups that call outside runTool and so may raise.
MayRaise == Range(Order) \ {"SetOverwrite"}

\* The messages of the inner try block that encloses a statement group; the
\* closing statements (lines 217-226) are in the outer try block only.
BlockMessage(p) ==
    IF p \in SetupSteps THEN << "Error setting up run." >>
    ELSE IF p = "MakeStops" THEN << "Error creating a feature class of GTFS stops." >>
    ELSE IF p = "MakeServiceAreas" THEN << "Error creating service areas around stops." >>
    ELSE IF p \in PostProcessSteps THEN << "Error post-processing polygons" >>
    ELSE << >>

FailedMessage == "Failed to create BetterBusBuffers polygons."

\* (mutant of OuterHandler) every exception is re-raised.
OuterHandlerReraises(kind) == "raised"

\* The outer handlers: CustomError is passed over, anything else re-raised.
OuterHandler(kind) == IF kind = "CustomError" THEN "returned" ELSE "raised"

Step(p) ==
    /\ pc = p
    /\ pc' = Successor(p)
    /\ log' = Append(log, p)
    /\ UNCHANGED << failedAt, errKind, messages, origOverwrite, inTable >>

\* ------------------------------------------------------------- geometry
\* What FeatureToPolygon can return for the service areas of `polys`: each
\* polygon has an area, FeatureToPoint finds an inside point of it (always
\* when the area is positive) and the point lies in the service areas `cover`.
Geoms(polys) ==
    { g \in [area : Areas, pt : BOOLEAN, cover : SUBSET polys] :
        /\ g.area > 0 => g.pt
        /\ ~g.pt => g.cover = {} }

FlattenOutputs(polys) ==
    IF polys = {} THEN { <<>> } ELSE SeqsUpTo(Geoms(polys), MaxCells)

\* FeatureToPoint, then Identity: one output point per (inside point,
\* service area containing it), carrying the polygon's object id in ORIG_FID
\* and the service area's stop_id; a point in no service area is kept once,
\* with an empty stop_id.
PointRows(f) ==
    IF ~f.Shape.pt THEN <<>>
    ELSE IF f.Shape.cover = {} THEN << [ORIG_FID |-> f.OID, stop_id |-> NoStop] >>
    ELSE LET stops == SeqOfSet(f.Shape.cover)
         IN  [k \in DOMAIN stops |-> [ORIG_FID |-> f.OID, stop_id |-> stops[k]]]

RECURSIVE IdentityRows(_)
IdentityRows(fc) ==
    IF fc = <<>> THEN <<>>
    ELSE PointRows(Head(fc)) \o IdentityRows(Tail(fc))

\* ------------------------------------------------------------- SQL table
\* (mutant of CreatedTable) CREATE TABLE IF NOT EXISTS, without the DROP.
CreatedTableKeepsRows(t) == [exists |-> TRUE, rows |-> t.rows]

\* DROP TABLE IF EXISTS StackedPoints; CREATE TABLE StackedPoints (...)
CreatedTable(t) == [exists |-> TRUE, rows |-> <<>>]

\* `not row[1]`
NoStopId(row) == row.stop_id = NoStop

RowsToDelete(rows) == { rows[i].ORIG_FID : i \in { k \in DOMAIN rows : NoStopId(rows[k]) } }

RECURSIVE RowsToAdd(_)
RowsToAdd(rows) ==
    IF rows = <<>> THEN <<>>
    ELSE (IF NoStopId(Head(rows)) THEN <<>>
          ELSE << << Head(rows).ORIG_FID, Head(rows).stop_id >> >>)
         \o RowsToAdd(Tail(rows))

\* ------------------------------------------------------------- cleanup
\* (mutant of InWhereClause) the where clause lists FIDsToDelete only.
InWhereClauseFIDsOnly(f, fids) == fids # {} /\ f.OID \in fids

\* (mutant of InWhereClause) the where clause tests the area only.
InWhereClauseAreaOnly(f, fids) == f.Shape_Area = 0

\* WhereClause: "Shape_Area" = 0, and when FIDsToDelete is not empty
\* OR "<OID field>" IN (<FIDsToDelete>).
InWhereClause(f, fids) ==
    \/ f.Shape_Area = 0
    \/ (fids # {} /\ f.OID \in fids)

\* (mutant of DeleteSelected) the remaining features are renumbered 1..n, as
\* a shapefile does.
RECURSIVE Renumbered(_, _)
Renumbered(fc, n) ==
    IF fc = <<>> THEN <<>>
    ELSE << [Head(fc) EXCEPT !.OID = n] >> \o Renumbered(Tail(fc), n + 1)

RECURSIVE KeptFeatures(_, _)
KeptFeatures(fc, fids) ==
    IF fc = <<>> THEN <<>>
    ELSE (IF Head(fc).Shape_Area = 0 \/ Head(fc).OID \in fids THEN <<>>
          ELSE << Head(fc) >>)
         \o KeptFeatures(Tail(fc), fids)

DeleteSelectedRenumbers(fc, fids) == Renumbered(KeptFeatures(fc, fids), 1)

\* DeleteFeatures on the layer of the where clause: the other features keep
\* their object ids.
RECURSIVE DeleteSelected(_, _)
DeleteSelected(fc, fids) ==
    IF fc = <<>> THEN <<>>
    ELSE (IF InWhereClause(Head(fc), fids) THEN <<>> ELSE << Head(fc) >>)
         \o DeleteSelected(Tail(fc), fids)

\* (mutant of PolyIDExpression) PolyID is the feature's position.
PolyIDPosition(fc, i) == i

\* CalculateField's expression "!<OID field>!" for the i-th feature.
PolyIDExpression(fc, i) == fc[i].OID

\* ------------------------------------------------------------- state
Init ==
    /\ pc = "CheckSetup"
    /\ outcome = "running"
    /\ failedAt = NoFailure
    /\ errKind = NoFailure
    /\ messages = <<>>
    /\ log = <<>>
    /\ envOverwrite \in BOOLEAN
    /\ origOverwrite = envOverwrite
    /\ OverwriteOutput = "unset"
    /\ gdbExists = FALSE
    /\ inTable \in InputTables
    /\ sqlCopied = FALSE
    /\ sqlTable = NoTable
    /\ StopIDList = {}
    /\ polygons = {}
    /\ flattened = <<>>
    /\ FlatPolys = <<>>
    /\ StackedPoints = <<>>
    /\ FIDsToDelete = {}
    /\ AddToStackedPts = <<>>

\* ------------------------------------------------------------- set up
\* CheckArcVersion, CheckArcInfoLicense, CheckOutNALicense, CheckWorkspace
CheckSetup ==
    /\ Step("CheckSetup")
    /\ UNCHANGED << outcome, envOverwrite, OverwriteOutput, gdbExists, sqlCopied,
                    sqlTable, StopIDList, polygons, flattened, FlatPolys,
                    StackedPoints, FIDsToDelete, AddToStackedPts >>

SetOverwrite ==
    /\ Step("SetOverwrite")
    /\ OverwriteOutput' = envOverwrite
    /\ envOverwrite' = TRUE
    /\ UNCHANGED << outcome, gdbExists, sqlCopied, sqlTable, StopIDList,
                    polygons, flattened, FlatPolys, StackedPoints,
                    FIDsToDelete, AddToStackedPts >>

CreateFileGDB ==
    /\ Step("CreateFileGDB")
    /\ gdbExists' = TRUE
    /\ UNCHANGED << outcome, envOverwrite, OverwriteOutput, sqlCopied, sqlTable,
                    StopIDList, polygons, flattened, FlatPolys, StackedPoints,
                    FIDsToDelete, AddToStackedPts >>

\* copyfile(inSQLDbase, SQLDbase)
CopyDbase ==
    /\ Step("CopyDbase")
    /\ sqlCopied' = TRUE
    /\ sqlTable' = inTable
    /\ UNCHANGED << outcome, envOverwrite, OverwriteOutput, gdbExists,
                    StopIDList, polygons, flattened, FlatPolys, StackedPoints,
                    FIDsToDelete, AddToStackedPts >>

Connect ==
    /\ Step("Connect")
    /\ UNCHANGED << outcome, envOverwrite, OverwriteOutput, gdbExists, sqlCopied,
                    sqlTable, StopIDList, polygons, flattened, FlatPolys,
                    StackedPoints, FIDsToDelete, AddToStackedPts >>

\* CleanUpImpedance, CleanUpTrimSettings
CleanUpSettings ==
    /\ Step("CleanUpSettings")
    /\ UNCHANGED << outcome, envOverwrite, OverwriteOutput, gdbExists, sqlCopied,
                    sqlTable, StopIDList, polygons, flattened, FlatPolys,
                    StackedPoints, FIDsToDelete, AddToStackedPts >>

\* ------------------------------------------------------------- stops, buffers
MakeStops ==
    /\ Step("MakeStops")
    /\ \E ids \in SUBSET StopIds : StopIDList' = ids
    /\ UNCHANGED << outcome, envOverwrite, OverwriteOutput, gdbExists, sqlCopied,
                    sqlTable, polygons, flattened, FlatPolys, StackedPoints,
                    FIDsToDelete, AddToStackedPts >>

\* One service area polygon per stop that the network reaches.
MakeServiceAreas ==
    /\ Step("MakeServiceAreas")
    /\ \E polys \in SUBSET StopIDList : polygons' = polys
    /\ UNCHANGED << outcome, envOverwrite, OverwriteOutput, gdbExists, sqlCopied,
                    sqlTable, StopIDList, flattened, FlatPolys, StackedPoints,
                    FIDsToDelete, AddToStackedPts >>

\* ------------------------------------------------------------- post-process
\* FeatureToPolygon numbers its output 1..n; the added fields are NULL.
Flatten ==
    /\ Step("Flatten")
    /\ \E cells \in FlattenOutputs(polygons) :
         FlatPolys' = [i \in DOMAIN cells |->
                          [OID |-> i, Shape_Area |-> cells[i].area,
                           Shape |-> cells[i], PolyID |-> Null]]
    /\ flattened' = FlatPolys'
    /\ UNCHANGED << outcome, envOverwrite, OverwriteOutput, gdbExists, sqlCopied,
                    sqlTable, StopIDList, polygons, StackedPoints,
                    FIDsToDelete, AddToStackedPts >>

StackPoints ==
    /\ Step("StackPoints")
    /\ StackedPoints' = IdentityRows(FlatPolys)
    /\ UNCHANGED << outcome, envOverwrite, OverwriteOutput, gdbExists, sqlCopied,
                    sqlTable, StopIDList, polygons, flattened, FlatPolys,
                    FIDsToDelete, AddToStackedPts >>

CreateTable ==
    /\ Step("CreateTable")
    /\ sqlTable' = CreatedTable(sqlTable)
    /\ UNCHANGED << outcome, envOverwrite, OverwriteOutput, gdbExists, sqlCopied,
                    StopIDList, polygons, flattened, FlatPolys, StackedPoints,
                    FIDsToDelete, AddToStackedPts >>

\* The SearchCursor loop.  FIDsToDelete is a list in the loop and made a set
\* at line 183; nothing reads it in between, so it is a set here.
ReadRows ==
    /\ Step("ReadRows")
    /\ FIDsToDelete' = RowsToDelete(StackedPoints)
    /\ AddToStackedPts' = RowsToAdd(StackedPoints)
    /\ UNCHANGED << outcome, envOverwrite, OverwriteOutput, gdbExists, sqlCopied,
                    sqlTable, StopIDList, polygons, flattened, FlatPolys,
                    StackedPoints >>

\* executemany(INSERT ...), commit, Delete(StackedPoints)
StoreLinks ==
    /\ Step("StoreLinks")
    /\ sqlTable' = [sqlTable EXCEPT !.rows = @ \o AddToStackedPts]
    /\ StackedPoints' = <<>>
    /\ UNCHANGED << outcome, envOverwrite, OverwriteOutput, gdbExists, sqlCopied,
                    StopIDList, polygons, flattened, FlatPolys, FIDsToDelete,
                    AddToStackedPts >>

\* MakeFeatureLayer with the where clause, DeleteFeatures
DeleteFeatures ==
    /\ Step("DeleteFeatures")
    /\ FlatPolys' = DeleteSelected(FlatPolys, FIDsToDelete)
    /\ UNCHANGED << outcome, envOverwrite, OverwriteOutput, gdbExists, sqlCopied,
                    sqlTable, StopIDList, polygons, flattened, StackedPoints,
                    FIDsToDelete, AddToStackedPts >>

PopulatePolyID ==
    /\ Step("PopulatePolyID")
    /\ FlatPolys' = [i \in DOMAIN FlatPolys |->
                        [FlatPolys[i] EXCEPT !.PolyID = PolyIDExpression(FlatPolys, i)]]
    /\ UNCHANGED << outcome, envOverwrite, OverwriteOutput, gdbExists, sqlCopied,
                    sqlTable, StopIDList, polygons, flattened, StackedPoints,
                    FIDsToDelete, AddToStackedPts >>

\* The closing messages and SetParameterAsText; runTool returns.
Finish ==
    /\ Step("Finish")
    /\ outcome' = "returned"
    /\ UNCHANGED << envOverwrite, OverwriteOutput, gdbExists, sqlCopied,
                    sqlTable, StopIDList, polygons, flattened, FlatPolys,
                    StackedPoints, FIDsToDelete, AddToStackedPts >>

\* ------------------------------------------------------------- errors
\* A statement group raises before it has changed anything: the inner handler
\* adds its block's message and re-raises, the outer handler adds
\* FailedMessage and passes (CustomError) or re-raises (anything else).
Raise ==
    /\ pc \in MayRaise
    /\ \E kind \in ErrorKinds :
         /\ errKind' = kind
         /\ outcome' = OuterHandler(kind)
    /\ failedAt' = pc
    /\ messages' = messages \o BlockMessage(pc) \o << FailedMessage >>
    /\ pc' = "done"
    /\ UNCHANGED << log, envOverwrite, origOverwrite, OverwriteOutput, gdbExists,
                    inTable, sqlCopied, sqlTable, StopIDList, polygons,
                    flattened, FlatPolys, StackedPoints, FIDsToDelete,
                    AddToStackedPts >>

Next ==
    \/ CheckSetup
    \/ SetOverwrite
    \/ CreateFileGDB
    \/ CopyDbase
    \/ Connect
    \/ CleanUpSettings
    \/ MakeStops
    \/ MakeServiceAreas
    \/ Flatten
    \/ StackPoints
    \/ CreateTable
    \/ ReadRows
    \/ StoreLinks
    \/ DeleteFeatures
    \/ PopulatePolyID
    \/ Finish
    \/ Raise

Spec == Init /\ [][Next]_vars

\* ------------------------------------------------------------- claims
Succeeded == pc = "done" /\ failedAt = NoFailure

Failed == pc = "done" /\ failedAt # NoFailure

\* links_for_cell: the stop_ids of the rows of the table keyed by a cell_id.
LinksForCell(id) ==
    { sqlTable.rows[k][2] : k \in { j \in DOMAIN sqlTable.rows : sqlTable.rows[j][1] = id } }

\* The number of rows of the table that hold the pair (id, stop).
RowCount(id, stop) ==
    Cardinality({ k \in DOMAIN sqlTable.rows : sqlTable.rows[k] = << id, stop >> })

CellIds == { FlatPolys[i].PolyID : i \in DOMAIN FlatPolys }

\* The flattened polygons that cleanup removed.
Removed == { f \in Range(flattened) : \A i \in DOMAIN FlatPolys : FlatPolys[i].OID # f.OID }

\* C1: after a successful run every polygon left in Step1_FlatPolys has at
\* least one row in the StackedPoints table under its PolyID.
NoOrphanCells ==
    Succeeded => \A i \in DOMAIN FlatPolys : LinksForCell(FlatPolys[i].PolyID) # {}

\* C1's case: a run that flattened a polygon in no service area, removed it
\* and kept another polygon.
NoOrphanCellsWitness ==
    /\ Succeeded
    /\ FlatPolys # <<>>
    /\ \E f \in Removed : f.Shape_Area > 0 /\ f.Shape.cover = {}

\* C2: after a successful run the table holds, for every polygon left and
\* every stop, exactly one row (PolyID, stop_id) when the stop's service area
\* covers the polygon's inside point, and no such row otherwise.
AttributionExact ==
    Succeeded =>
        \A i \in DOMAIN FlatPolys : \A s \in StopIds :
            RowCount(FlatPolys[i].PolyID, s)
                = (IF s \in FlatPolys[i].Shape.cover THEN 1 ELSE 0)

\* C2's case: a polygon covered by both service areas is left, after a
\* polygon before it was removed and with rows of an earlier run in the
\* input database.
AttributionExactWitness ==
    /\ Succeeded
    /\ inTable.exists
    /\ \E i \in DOMAIN FlatPolys :
         /\ FlatPolys[i].Shape.cover = {"S1", "S2"}
         /\ FlatPolys[i].OID # i

\* C3 (as claimed): after a successful run every Polygon_FID in the
\* StackedPoints table is the PolyID of a polygon left in Step1_FlatPolys.
CleanupCascadesToLinks ==
    Succeeded =>
        \A k \in DOMAIN sqlTable.rows : sqlTable.rows[k][1] \in CellIds

\* C4: once the polygons of the where clause are deleted, no polygon of
\* Step1_FlatPolys has area 0, whatever FIDsToDelete holds.
NoZeroAreaCells ==
    "DeleteFeatures" \in Range(log) =>
        \A i \in DOMAIN FlatPolys : FlatPolys[i].Shape_Area # 0

\* C4's case: no polygon was without stop_id, a zero-area polygon with
\* stop_ids was flattened, and the run succeeded with a polygon left.
NoZeroAreaCellsWitness ==
    /\ Succeeded
    /\ FIDsToDelete = {}
    /\ FlatPolys # <<>>
    /\ \E f \in Range(flattened) : f.Shape_Area = 0 /\ f.Shape.cover # {}

\* C5 (as claimed): after a successful run the PolyIDs of the N polygons left
\* are exactly 1..N.
CellIdsDense ==
    Succeeded => CellIds = 1 .. Len(FlatPolys)

\* C5 (amended): after a successful run each polygon left has as PolyID the
\* object id FeatureToPolygon gave it (its position in the flattened output
\* before cleanup); the PolyIDs are distinct and increasing, within the
\* numbers of the flattened polygons.
CellIdIsFlattenedOID ==
    Succeeded =>
        /\ \A i \in DOMAIN FlatPolys :
             /\ FlatPolys[i].PolyID \in DOMAIN flattened
             /\ flattened[FlatPolys[i].PolyID].Shape = FlatPolys[i].Shape
             /\ flattened[FlatPolys[i].PolyID].OID = FlatPolys[i].PolyID
        /\ \A i, j \in DOMAIN FlatPolys :
             i < j => FlatPolys[i].PolyID < FlatPolys[j].PolyID

\* C5's case: cleanup removed a polygon ahead of one it kept.
CellIdIsFlattenedOIDWitness ==
    /\ Succeeded
    /\ \E i \in DOMAIN FlatPolys : FlatPolys[i].PolyID > i

\* The stage of the pipeline that a statement group completes.
StageCompletedBy(p) ==
    IF p = "MakeStops" THEN "Stops"
    ELSE IF p = "MakeServiceAreas" THEN "Buffers"
    ELSE IF p = "Flatten" THEN "Flatten"
    ELSE IF p = "ReadRows" THEN "Attribute"
    ELSE IF p = "StoreLinks" THEN "Store"
    ELSE IF p = "PopulatePolyID" THEN "Cleanup"
    ELSE "-"

RECURSIVE StagesOf(_)
StagesOf(l) ==
    IF l = <<>> THEN <<>>
    ELSE (IF StageCompletedBy(Head(l)) = "-" THEN <<>>
          ELSE << StageCompletedBy(Head(l)) >>)
         \o StagesOf(Tail(l))

\* C6 (as claimed): the stages complete in the order Stops, Buffers, Flatten,
\* Attribute, Cleanup, Store, and cleanup is complete when the rows are
\* committed.
StagesInClaimedOrder ==
    /\ IsPrefix(StagesOf(log),
                << "Stops", "Buffers", "Flatten", "Attribute", "Cleanup", "Store" >>)
    /\ "StoreLinks" \in Range(log) => "PopulatePolyID" \in Range(log)

\* C6 (amended): the stages complete in the order Stops, Buffers, Flatten,
\* Attribute, Store, Cleanup; the rows are inserted and committed before the
\* first polygon is deleted.
StagesStoreBeforeCleanup ==
    /\ IsPrefix(StagesOf(log),
                << "Stops", "Buffers", "Flatten", "Attribute", "Store", "Cleanup" >>)
    /\ pc \in {"DeleteFeatures", "PopulatePolyID"} \/ "DeleteFeatures" \in Range(log)
         => "StoreLinks" \in Range(log)

\* C6's case: a run that went through all six stages.
StagesStoreBeforeCleanupWitness ==
    /\ Succeeded
    /\ Len(StagesOf(log)) = 6
    /\ Removed # {}

\* The stage of the pipeline a statement group belongs to.
StageOf(p) ==
    IF p \in SetupSteps THEN "Setup"
    ELSE IF p = "MakeStops" THEN "Stops"
    ELSE IF p = "MakeServiceAreas" THEN "Buffers"
    ELSE IF p = "Flatten" THEN "Flatten"
    ELSE IF p \in {"StackPoints", "ReadRows"} THEN "Attribute"
    ELSE IF p \in {"CreateTable", "StoreLinks"} THEN "Store"
    ELSE IF p \in {"DeleteFeatures", "PopulatePolyID"} THEN "Cleanup"
    ELSE "Finish"

\* C7 (as claimed): a run in which a statement raised ends by raising to the
\* caller, and the messages tell which of the flatten, attribute and store
\* stages raised.
ErrorsSurfacedWithStage ==
    Failed =>
        /\ outcome = "raised"
        /\ StageOf(failedAt) \in {"Flatten", "Attribute", "Store"} =>
             \A p \in MayRaise :
                 messages = BlockMessage(p) \o << FailedMessage >>
                     => StageOf(p) = StageOf(failedAt)

\* C7 (amended): a run in which a statement raised reports the message of the
\* try block the statement is in, then FailedMessage; it raises to the caller
\* unless the exception is a CustomError, and then it returns normally.
ErrorsReportedByBlock ==
    Failed =>
        /\ messages = BlockMessage(failedAt) \o << FailedMessage >>
        /\ errKind = "CustomError" => outcome = "returned"
        /\ errKind # "CustomError" => outcome = "raised"

\* C7's case: the store stage raised a CustomError.
ErrorsReportedByBlockWitness ==
    /\ Failed
    /\ failedAt = "StoreLinks"
    /\ errKind = "CustomError"

\* C8 (as claimed): a run that raised during set-up leaves neither the output
\* geodatabase nor its Step1_GTFS.sql.
SetupFailureWritesNothing ==
    (Failed /\ failedAt \in SetupSteps) => (~gdbExists /\ ~sqlCopied)

OverwriteOutputRestored ==
    pc = "done" => envOverwrite = origOverwrite

====
